---- MODULE Spec2Model ----
(***************************************************************************)
(* naver_blog_md: block extraction (blog/hooks.py, blog/components.py),    *)
(* Markdown rendering (markdown/render.py, markdown/image.py), the worker  *)
(* pool (multiprocess/pool.py) and the lazy value wrapper (fp/lazy_val.py).*)
(*                                                                         *)
(* Python strings are sequences of one-character strings.  An optional     *)
(* value is a sequence of length 0 (None) or 1 (the value).                *)
(***************************************************************************)
EXTENDS Integers, Sequences, FiniteSets, TLC

(***************************************************************************)
(* String primitives of the Python standard library used by the source.   *)
(***************************************************************************)

\* s.startswith(p, i): p occurs in s at position i (1-based).
MatchAt(s, p, i) ==
    /\ i + Len(p) - 1 <= Len(s)
    /\ \A k \in 1..Len(p) : s[i + k - 1] = p[k]

RECURSIVE ReplaceFrom(_, _, _, _)
\* the scan of str.replace: leftmost match first, matches do not overlap,
\* the scan resumes after the text it replaced.
ReplaceFrom(s, old, new, i) ==
    IF i > Len(s) THEN <<>>
    ELSE IF MatchAt(s, old, i)
         THEN new \o ReplaceFrom(s, old, new, i + Len(old))
         ELSE <<s[i]>> \o ReplaceFrom(s, old, new, i + 1)

\* str.replace(old, new) for a non-empty old
Replace(s, old, new) == ReplaceFrom(s, old, new, 1)

\* s.split(sep)[0] for a one-character sep: the text before the first sep
SplitFirst(s, sep) ==
    IF \E i \in 1..Len(s) : s[i] = sep
    THEN LET i == CHOOSE j \in 1..Len(s) :
                     s[j] = sep /\ \A k \in 1..(j - 1) : s[k] # sep
         IN  SubSeq(s, 1, i - 1)
    ELSE s

\* s.split(sep)[-1] for a one-character sep: the text after the last sep
SplitLast(s, sep) ==
    IF \E i \in 1..Len(s) : s[i] = sep
    THEN LET i == CHOOSE j \in 1..Len(s) :
                     s[j] = sep /\ \A k \in (j + 1)..Len(s) : s[k] # sep
         IN  SubSeq(s, i + 1, Len(s))
    ELSE s

\* str.strip(): the characters Python counts as whitespace, of the alphabet used
Whitespace == {" ", "\n"}

RECURSIVE LStrip(_)
LStrip(s) == IF s # <<>> /\ Head(s) \in Whitespace THEN LStrip(Tail(s)) ELSE s

RECURSIVE RStrip(_)
RStrip(s) ==
    IF s # <<>> /\ s[Len(s)] \in Whitespace
    THEN RStrip(SubSeq(s, 1, Len(s) - 1))
    ELSE s

Strip(s) == LStrip(RStrip(s))

\* p occurs somewhere in s
Contains(s, p) == \E i \in 1..Len(s) : MatchAt(s, p, i)

RECURSIVE Flatten(_)
\* "".join(parts)
Flatten(parts) ==
    IF parts = <<>> THEN <<>> ELSE Head(parts) \o Flatten(Tail(parts))

(***************************************************************************)
(* URL canonicalization.                                                   *)
(***************************************************************************)

POSTFILES == <<"p","o","s","t","f","i","l","e","s">>
BLOGFILES == <<"b","l","o","g","f","i","l","e","s">>
VIDEO_HOST == <<"h","t","t","p","s",":","/","/","m","b","l","o","g","v","i","d","e","o","-","p","h","i","n","f",".","p","s","t","a","t","i","c",".","n","e","t","/">>
IMAGE_HOST == <<"h","t","t","p","s",":","/","/","b","l","o","g","f","i","l","e","s",".","p","s","t","a","t","i","c",".","n","e","t","/">>

\* blog/components.py _original_image_url: the parser's normalization
components_original_image_url(url) ==
    Replace(SplitFirst(url, "?"), POSTFILES, BLOGFILES)

\* as _original_image_url with src.rsplit("?", 1)[0]: only the last query
\* string is cut off
image_original_image_url_rsplit(src) ==
    Replace(Replace(IF \E i \in 1..Len(src) : src[i] = "?"
                    THEN SubSeq(src, 1, Len(src) - Len(SplitLast(src, "?")) - 1)
                    ELSE src,
                    POSTFILES, BLOGFILES),
            VIDEO_HOST, IMAGE_HOST)

\* markdown/image.py _original_image_url: the CDN-rewrite strategy
image_original_image_url(src) ==
    Replace(Replace(SplitFirst(src, "?"), POSTFILES, BLOGFILES),
            VIDEO_HOST, IMAGE_HOST)

\* markdown/image.py _identity: the pass-through strategy
identity(src) == src

\* urllib.parse.unquote_plus, for the escapes of the alphabet used: "+" is a
\* space, "%20" is a space
unquote_plus(s) == Replace(Replace(s, <<"+">>, <<" ">>), <<"%","2","0">>, <<" ">>)

(***************************************************************************)
(* State.                                                                  *)
(***************************************************************************)

VARIABLES
    \* the URL functions on their own
    src,         \* a raw URL
    parsed,      \* optional: the parser's normalization of src
    cdn,         \* the CDN-rewrite strategy applied to src once, twice
    target,      \* per pure strategy, optional: the target of the parsed image
    \* use_post(blog_id, log_no)
    components,  \* the .se-component elements of the fetched post, in order
    ctx,         \* the MarkdownRenderContext of the as_markdown calls
    lazy,        \* the lazy_val closures root and preview_image
    heap,        \* the generator objects as_blocks() has created
    pc,          \* where the calling thread is
    call,        \* the API call in progress, or the last one
    ncalls,      \* API calls made
    refs,        \* the generators held by the body, the preview scan, the user
    yielded,     \* blocks the user's iteration has received
    header,      \* optional: the front matter text
    tasks,       \* list(blocks) in Pool.map
    nextChunk,   \* the next chunk of the task queue
    results,     \* per chunk, optional: the worker's result
    completed,   \* chunks in completion order
    workers,     \* the pool's worker processes
    fetch,       \* per process, the _fetch_image_processor call in progress
    files,       \* the assets directory
    nfail,       \* non-success responses received during the call
    markdown,    \* optional: what as_markdown returned
    error        \* optional: the exception the call ended with

urlVars == <<src, parsed, cdn, target>>
postVars == <<components, ctx, lazy, heap, pc, call, ncalls, refs, yielded,
              header, tasks, nextChunk, results, completed, workers, fetch,
              files, nfail, markdown, error>>
vars == <<urlVars, postVars>>

(***************************************************************************)
(* markdown/models.py: the blocks.                                         *)
(***************************************************************************)

ImageBlock(s, a) ==
    [type |-> "Image", text |-> <<>>, src |-> s, alt |-> a, images |-> <<>>]

SectionTitleBlock(t) ==
    [type |-> "SectionTitle", text |-> t, src |-> <<>>, alt |-> <<>>, images |-> <<>>]

ParagraphBlock(t) ==
    [type |-> "Paragraph", text |-> t, src |-> <<>>, alt |-> <<>>, images |-> <<>>]

ImageGroupBlock(imgs) ==
    [type |-> "ImageGroup", text |-> <<>>, src |-> <<>>, alt |-> <<>>, images |-> imgs]

NoBlock ==
    [type |-> "None", text |-> <<>>, src |-> <<>>, alt |-> <<>>, images |-> <<>>]

\* an exception: its class and its arguments
Exception(t, m) == [type |-> t, msg |-> m]
NoException == Exception("None", <<>>)

(***************************************************************************)
(* blog/components.py: a component is an element with its class token      *)
(* (cls), its text, its img and video children (their src attributes), its *)
(* optional .se-caption text and its .se-text-paragraph texts.             *)
(***************************************************************************)

Component(c, t, i, v, cap, ps) ==
    [cls |-> c, text |-> t, imgs |-> i, videos |-> v, caption |-> cap,
     paragraphs |-> ps]

text_from_tag(t) == Strip(Strip(t))

caption_alt(component) ==
    IF component.caption # <<>> THEN text_from_tag(component.caption[1]) ELSE <<>>

section_title_component(component) == SectionTitleBlock(text_from_tag(component.text))

text_component(component) ==
    [i \in 1..Len(component.paragraphs) |->
        ParagraphBlock(text_from_tag(component.paragraphs[i]))]

image_group_component(component) ==
    ImageGroupBlock([i \in 1..Len(component.imgs) |->
        ImageBlock(components_original_image_url(component.imgs[i]),
                   caption_alt(component))])

\* select_one gives the first img and the first video, or None; the match
\* accepts an img without video and a video without img
image_component_ok(component) ==
    (component.imgs # <<>>) # (component.videos # <<>>)

image_component(component) ==
    ImageBlock(components_original_image_url(
                   IF component.imgs # <<>> THEN component.imgs[1]
                                            ELSE component.videos[1]),
               caption_alt(component))

(***************************************************************************)
(* blog/hooks.py as_blocks: a generator object is the index of the         *)
(* component it examines next (ci), the paragraphs of that component it    *)
(* has yielded (pi), and whether it has finished.                          *)
(***************************************************************************)

FreshGen == [ci |-> 1, pi |-> 0, done |-> FALSE]
DoneGen(g) == [g EXCEPT !.done = TRUE]

\* the discriminators that yield nothing, with every other token added
InertOrUnknown ==
    { components[i].cls : i \in 1..Len(components) }
        \ {"se-sectionTitle", "se-image", "se-imageGroup", "se-text"}

\* case "se-placesMap": pass / case "se-oglink": pass
InertDiscriminators == {"se-placesMap", "se-oglink"}

Yield(b, g) == [kind |-> "yield", block |-> b, err |-> NoException, gen |-> g]
StopIteration(g) ==
    [kind |-> "stop", block |-> NoBlock, err |-> NoException, gen |-> DoneGen(g)]
Raise(e, g) == [kind |-> "raise", block |-> NoBlock, err |-> e, gen |-> DoneGen(g)]

RECURSIVE GenNext(_)
\* next(g) on a generator of as_blocks: runs the loop to the next yield, to
\* the end of the loop or to a raise
GenNext(g) ==
    IF g.done \/ g.ci > Len(components) THEN StopIteration(g)
    ELSE LET component == components[g.ci]
             after == [ci |-> g.ci + 1, pi |-> 0, done |-> FALSE]
         IN  CASE component.cls = "se-sectionTitle" ->
                    Yield(section_title_component(component), after)
               [] component.cls = "se-image" ->
                    IF image_component_ok(component)
                    THEN Yield(image_component(component), after)
                    ELSE Raise(Exception("AssertionError",
                                 <<"Image and video are mutually exclusive">>), g)
               [] component.cls = "se-imageGroup" ->
                    Yield(image_group_component(component), after)
               [] component.cls = "se-text" ->
                    IF g.pi < Len(component.paragraphs)
                    THEN Yield(text_component(component)[g.pi + 1],
                               [g EXCEPT !.pi = g.pi + 1])
                    ELSE GenNext(after)
               [] component.cls \in InertDiscriminators -> GenNext(after)
               [] OTHER ->
                    Raise(Exception("ValueError",
                            <<"Unknown component type: ", component.cls>>), g)

\* as_blocks() handing out one generator object to all its callers
as_blocks_shared(h) ==
    IF h = <<>> THEN [ref |-> 1, heap |-> <<FreshGen>>] ELSE [ref |-> 1, heap |-> h]

\* as_blocks(): a new generator object; nothing of its body has run
as_blocks(h) == [ref |-> Len(h) + 1, heap |-> Append(h, FreshGen)]

(***************************************************************************)
(* markdown/render.py and markdown/image.py: rendering.                    *)
(***************************************************************************)

\* the srcs _block_as_markdown passes to processed_image_src, in order
images_to_process(block) ==
    CASE block.type = "Image" /\ block.src # <<>> -> <<block.src>>
      [] block.type = "ImageGroup" ->
            [i \in 1..Len(block.images) |-> block.images[i].src]
      [] OTHER -> <<>>

ImageRef(alt, tgt) == <<"!", "[">> \o alt \o <<"]", "(">> \o tgt \o <<")">>

RECURSIVE JoinSpace(_)
\* " ".join(parts)
JoinSpace(parts) ==
    IF parts = <<>> THEN <<>>
    ELSE IF Len(parts) = 1 THEN parts[1]
    ELSE parts[1] \o <<" ">> \o JoinSpace(Tail(parts))

\* _block_as_markdown, given what processed_image_src returned for the
\* images of the block
block_as_markdown(block, targets) ==
    CASE block.type = "SectionTitle" ->
            <<"#", "#", " ">> \o Strip(block.text) \o <<"\n", "\n">>
      [] block.type = "Paragraph" ->
            IF block.text = <<>> \/ block.text = <<"\n">> THEN <<>>
            ELSE Strip(block.text) \o <<"\n", "\n">>
      [] block.type = "Image" ->
            IF block.src = <<>> THEN <<>>
            ELSE ImageRef(block.alt, targets[1]) \o <<"\n", "\n">>
      [] block.type = "ImageGroup" ->
            IF block.images = <<>> THEN <<>>
            ELSE JoinSpace([i \in 1..Len(block.images) |->
                               ImageRef(block.images[i].alt, targets[i])])
                    \o <<"\n", "\n">>
      [] OTHER -> <<>>

\* _fetch_image_processor: filename = unquote_plus(url.split("/")[-1])
fetch_filename(url) == unquote_plus(SplitLast(url, "/"))

\* what the image processor of the context returns for src (for the fetch
\* strategy: once the file is written)
processed_image_src(c, s) ==
    CASE c.variant = "default" -> identity(s)
      [] c.variant = "cdn" -> image_original_image_url(s)
      [] OTHER -> c.image_src_prefix \o fetch_filename(image_original_image_url(s))

pure_targets(c, block) ==
    [i \in 1..Len(images_to_process(block)) |->
        processed_image_src(c, images_to_process(block)[i])]

\* yaml.safe_dump of a string of the alphabet used
YamlScalar(s) ==
    IF s = <<>> \/ Strip(s) # s THEN <<"'">> \o s \o <<"'">> ELSE s

\* _front_matter_as_yaml: the mapping is the optional image entry, with its
\* url as the image processor returned it, and the title
front_matter_as_yaml(image, url) ==
    <<"-", "-", "-", "\n">>
    \o (IF image = <<>> THEN <<>>
        ELSE <<"i","m","a","g","e",":","\n"," "," ","a","l","t",":"," ">>
             \o YamlScalar(image[1].alt)
             \o <<"\n"," "," ","u","r","l",":"," ">> \o YamlScalar(url) \o <<"\n">>)
    \o <<"t","i","t","l","e",":"," ","T","\n">>
    \o <<"-", "-", "-", "\n", "\n">>

\* Pool.map: chunksize, extra = divmod(len(iterable), len(self._pool) * 4)
chunk_size(n, processes) ==
    IF n = 0 THEN 0
    ELSE (n \div (processes * 4)) + (IF n % (processes * 4) # 0 THEN 1 ELSE 0)

num_chunks(n, processes) ==
    IF n = 0 THEN 0
    ELSE LET cs == chunk_size(n, processes)
         IN  (n \div cs) + (IF n % cs # 0 THEN 1 ELSE 0)

chunk_blocks(ts, processes, j) ==
    LET cs == chunk_size(Len(ts), processes)
        lo == (j - 1) * cs + 1
        hi == IF j * cs < Len(ts) THEN j * cs ELSE Len(ts)
    IN  SubSeq(ts, lo, hi)

RECURSIVE InOrder(_, _)
\* the fragments of the chunks named by order, concatenated
InOrder(res, order) ==
    IF order = <<>> THEN <<>>
    ELSE res[Head(order)][1].frags \o InOrder(res, Tail(order))

\* the fragments in the order the chunks completed
assemble_by_completion(res, done) == InOrder(res, done)

\* MapResult._set: self._value[i*chunksize:(i+1)*chunksize] = result
assemble(res, done) == InOrder(res, [j \in 1..Len(res) |-> j])

\* (result + "".join(rendered_blocks)).strip() + "\n"
finish_markdown(result, rendered_blocks) ==
    Strip(result \o Flatten(rendered_blocks)) \o <<"\n">>

(***************************************************************************)
(* fp/lazy_val.py: a closure cell is the nonlocal value (None or the       *)
(* stored value) with the number of times func was entered and returned.   *)
(***************************************************************************)

LazyCell == [value |-> <<>>, invoked |-> 0, returned |-> 0]

\* if value is None:
lazy_val_computes(cell) == cell.value = <<>>

\* value = func(), func being entered
lazy_val_enter(cell) == [cell EXCEPT !.invoked = @ + 1]

\* value = func(), func returning v (an optional: None is <<>>)
lazy_val_store(cell, v) == [cell EXCEPT !.value = v, !.returned = @ + 1]

\* root(): the wrapper of the fetch of the post page, which returns the tree
root(cell) ==
    IF lazy_val_computes(cell)
    THEN lazy_val_store(lazy_val_enter(cell), <<"BeautifulSoup">>)
    ELSE cell

(***************************************************************************)
(* The posts and the contexts checked.                                     *)
(***************************************************************************)

\* components of a post
MaxComponents == 2
\* API calls on one use_post
MaxCalls == 2
\* write calls one write_bytes takes
NumWrites == 2

URL_A == <<"h", ":", "/", "a">>
URL_B == <<"h", ":", "/", "b", "+">>
QUERY == <<"?", "q">>

ComponentChoices == {
    Component("se-sectionTitle", <<" ", "T">>, <<>>, <<>>, <<>>, <<>>),
    Component("se-image", <<>>, <<URL_A \o QUERY>>, <<>>, <<<<"c">>>>, <<>>),
    Component("se-image", <<>>, <<>>, <<QUERY>>, <<>>, <<>>),
    Component("se-imageGroup", <<>>, <<>>, <<>>, <<>>, <<>>),
    Component("se-imageGroup", <<>>, <<URL_B, QUERY>>, <<>>, <<<<"g">>>>, <<>>),
    Component("se-text", <<>>, <<>>, <<>>, <<>>, << <<"p", " ">>, <<>> >>),
    Component("se-oglink", <<>>, <<>>, <<>>, <<>>, <<>>),
    Component("se-unknownThing", <<>>, <<>>, <<>>, <<>>, <<>>) }

Contexts ==
    [variant : {"default", "cdn"}, num_workers : {1, 2},
     assets_directory : {"none"}, image_src_prefix : {<<>>}]
    \cup
    [variant : {"fetch"}, num_workers : {1, 2},
     assets_directory : {"has_a"}, image_src_prefix : {<<"i", "/">>}]

\* the response body of a URL, in the pieces the writes take
Body(url) == [i \in 1..NumWrites |-> <<url, i>>]

FileNames == { fetch_filename(u) : u \in {URL_A, URL_B} }

Absent == [exists |-> FALSE, data |-> <<>>]
File(d) == [exists |-> TRUE, data |-> d]

\* the assets directory before the first call
InitialFiles(c) ==
    [f \in FileNames |->
        IF c.assets_directory = "has_a" /\ f = fetch_filename(URL_A)
        THEN File(<<"old">>) ELSE Absent]

Procs == 0..2                  \* 0 is the calling thread, the others the pool
PoolOf(c) == 1..c.num_workers

IdleWorker == [pc |-> "idle", chunk |-> 0, k |-> 0, frags |-> <<>>, targets |-> <<>>]
NoFetch == [pc |-> "none", url |-> <<>>, status |-> "none", off |-> 0]
NoRefs == [body |-> 0, preview |-> 0, user |-> 0]

UrlIdle ==
    /\ src = <<>>
    /\ parsed = <<>>
    /\ cdn = <<>>
    /\ target = [v \in {"default", "cdn"} |-> <<>>]

PostInit ==
    /\ components \in UNION { [1..n -> ComponentChoices] : n \in 0..MaxComponents }
    /\ ctx \in Contexts
    /\ lazy = [root |-> LazyCell, preview |-> LazyCell]
    /\ heap = <<>>
    /\ pc = "idle"
    /\ call = "none"
    /\ ncalls = 0
    /\ refs = NoRefs
    /\ yielded = <<>>
    /\ header = <<>>
    /\ tasks = <<>>
    /\ nextChunk = 0
    /\ results = <<>>
    /\ completed = <<>>
    /\ workers = [w \in 1..2 |-> IdleWorker]
    /\ fetch = [a \in Procs |-> NoFetch]
    /\ files = InitialFiles(ctx)
    /\ nfail = 0
    /\ markdown = <<>>
    /\ error = <<>>

Init == UrlIdle /\ PostInit

(***************************************************************************)
(* blog/hooks.py use_post: the calling thread.                             *)
(***************************************************************************)

\* what every API call starts from
EnterCall(name) ==
    /\ pc = "idle"
    /\ ncalls < MaxCalls
    /\ call' = name
    /\ ncalls' = ncalls + 1
    /\ yielded' = <<>>
    /\ header' = <<>>
    /\ tasks' = <<>>
    /\ nextChunk' = 0
    /\ results' = <<>>
    /\ completed' = <<>>
    /\ nfail' = 0
    /\ markdown' = <<>>
    /\ error' = <<>>
    /\ UNCHANGED <<urlVars, components, ctx, lazy, workers, fetch, files>>

\* metadata(), called by the user
CallMetadata ==
    /\ EnterCall("metadata")
    /\ pc' = "metadata"
    /\ refs' = NoRefs
    /\ UNCHANGED heap

\* as_markdown(**context): as_blocks() is evaluated, then metadata()
CallAsMarkdown ==
    /\ EnterCall("as_markdown")
    /\ pc' = "metadata"
    /\ heap' = as_blocks(heap).heap
    /\ refs' = [NoRefs EXCEPT !.body = as_blocks(heap).ref]

\* as_blocks(), called by the user, who then iterates over it
CallAsBlocks ==
    /\ EnterCall("as_blocks")
    /\ pc' = "iterate"
    /\ heap' = as_blocks(heap).heap
    /\ refs' = [NoRefs EXCEPT !.user = as_blocks(heap).ref]

\* the call ends with exception e
RaiseToCaller(e) ==
    /\ pc' = "idle"
    /\ error' = <<e>>

\* metadata() has its arguments
AfterMetadata == IF call = "metadata" THEN "idle" ELSE "front_matter"

\* metadata(): root(), then preview_image(): the lazy_val wrapper either
\* enters _first_image_of_blocks(as_blocks()) or returns the stored value
PreviewImage ==
    /\ pc = "metadata"
    /\ IF lazy_val_computes(lazy.preview)
       THEN /\ lazy' = [root |-> root(lazy.root),
                        preview |-> lazy_val_enter(lazy.preview)]
            /\ heap' = as_blocks(heap).heap
            /\ refs' = [refs EXCEPT !.preview = as_blocks(heap).ref]
            /\ pc' = "preview"
       ELSE /\ lazy' = [lazy EXCEPT !.root = root(lazy.root)]
            /\ pc' = AfterMetadata
            /\ UNCHANGED <<heap, refs>>
    /\ UNCHANGED <<urlVars, components, ctx, call, ncalls, yielded, header, tasks,
                   nextChunk, results, completed, workers, fetch, files, nfail,
                   markdown, error>>

\* _first_image_of_blocks: one next(blocks) and the match on the block
FirstImageOfBlocks ==
    /\ pc = "preview"
    /\ LET r == GenNext(heap[refs.preview])
           found(img) ==
               /\ lazy' = [root |-> root(lazy.root),
                           preview |-> lazy_val_store(lazy.preview, img)]
               /\ pc' = AfterMetadata
               /\ UNCHANGED error
       IN  /\ heap' = [heap EXCEPT ![refs.preview] = r.gen]
           /\ CASE r.kind = "stop" -> found(<<>>)
                [] r.kind = "raise" ->
                      /\ RaiseToCaller(r.err)
                      /\ lazy' = [lazy EXCEPT !.root = root(lazy.root)]
                [] r.kind = "yield" /\ r.block.type = "Image" ->
                      found(<<ImageBlock(r.block.src, r.block.alt)>>)
                [] r.kind = "yield" /\ r.block.type = "ImageGroup" ->
                      IF r.block.images # <<>>
                      THEN found(<<ImageBlock(r.block.images[1].src,
                                              r.block.images[1].alt)>>)
                      ELSE /\ RaiseToCaller(Exception("IndexError",
                                              <<"list index out of range">>))
                           /\ lazy' = [lazy EXCEPT !.root = root(lazy.root)]
                [] OTHER ->
                      /\ lazy' = [lazy EXCEPT !.root = root(lazy.root)]
                      /\ UNCHANGED <<pc, error>>
    /\ UNCHANGED <<urlVars, components, ctx, call, ncalls, refs, yielded, header,
                   tasks, nextChunk, results, completed, workers, fetch, files,
                   nfail, markdown>>

\* the user's for loop over as_blocks(): one next()
UserNext ==
    /\ pc = "iterate"
    /\ LET r == GenNext(heap[refs.user])
       IN  /\ heap' = [heap EXCEPT ![refs.user] = r.gen]
           /\ lazy' = [lazy EXCEPT !.root = root(lazy.root)]
           /\ CASE r.kind = "yield" ->
                      /\ yielded' = Append(yielded, r.block)
                      /\ UNCHANGED <<pc, error>>
                [] r.kind = "stop" ->
                      /\ pc' = "idle"
                      /\ UNCHANGED <<yielded, error>>
                [] OTHER ->
                      /\ RaiseToCaller(r.err)
                      /\ UNCHANGED yielded
    /\ UNCHANGED <<urlVars, components, ctx, call, ncalls, refs, header, tasks,
                   nextChunk, results, completed, workers, fetch, files, nfail,
                   markdown>>

(***************************************************************************)
(* markdown/render.py blocks_as_markdown, in the calling thread.           *)
(***************************************************************************)

\* the front matter needs the fetch strategy for its image url
FrontMatterFetches ==
    ctx.variant = "fetch" /\ lazy.preview.value # <<>>

\* if front_matter is not None and result == "": with a pure strategy
FrontMatter ==
    /\ pc = "front_matter"
    /\ ~FrontMatterFetches
    /\ header' = <<front_matter_as_yaml(lazy.preview.value,
                      IF lazy.preview.value = <<>> THEN <<>>
                      ELSE processed_image_src(ctx, lazy.preview.value[1].src))>>
    /\ pc' = "collect"
    /\ UNCHANGED <<urlVars, components, ctx, lazy, heap, call, ncalls, refs,
                   yielded, tasks, nextChunk, results, completed, workers, fetch,
                   files, nfail, markdown, error>>

\* Pool.map: iterable = list(iterable), one next() of the body's generator
Collect ==
    /\ pc = "collect"
    /\ LET r == GenNext(heap[refs.body])
       IN  /\ heap' = [heap EXCEPT ![refs.body] = r.gen]
           /\ lazy' = [lazy EXCEPT !.root = root(lazy.root)]
           /\ CASE r.kind = "yield" ->
                      /\ tasks' = Append(tasks, r.block)
                      /\ UNCHANGED <<pc, error, nextChunk, results>>
                [] r.kind = "stop" ->
                      /\ pc' = "pool"
                      /\ nextChunk' = 1
                      /\ results' = [j \in 1..num_chunks(Len(tasks), ctx.num_workers)
                                        |-> <<>>]
                      /\ UNCHANGED <<tasks, error>>
                [] OTHER ->
                      /\ RaiseToCaller(r.err)
                      /\ UNCHANGED <<tasks, nextChunk, results>>
    /\ UNCHANGED <<urlVars, components, ctx, call, ncalls, refs, yielded, header,
                   completed, workers, fetch, files, nfail, markdown>>

\* Pool.map returns when every chunk has its result: it raises the exception
\* of the chunk that failed first, or returns the fragments
MapReturn ==
    /\ pc = "pool"
    /\ \A j \in 1..Len(results) : results[j] # <<>>
    /\ pc' = "idle"
    /\ IF \E j \in 1..Len(results) : ~results[j][1].ok
       THEN LET i == CHOOSE n \in 1..Len(completed) :
                        /\ ~results[completed[n]][1].ok
                        /\ \A m \in 1..(n - 1) : results[completed[m]][1].ok
            IN  /\ error' = <<results[completed[i]][1].err>>
                /\ UNCHANGED markdown
       ELSE /\ markdown' = <<finish_markdown(header[1], assemble(results, completed))>>
            /\ UNCHANGED error
    /\ UNCHANGED <<urlVars, components, ctx, lazy, heap, call, ncalls, refs,
                   yielded, header, tasks, nextChunk, results, completed, workers,
                   fetch, files, nfail>>

(***************************************************************************)
(* multiprocess/pool.py: the workers of Pool(num_workers).                 *)
(***************************************************************************)

CurrentBlock(w) ==
    chunk_blocks(tasks, ctx.num_workers, workers[w].chunk)[workers[w].k]

ChunkLen(w) == Len(chunk_blocks(tasks, ctx.num_workers, workers[w].chunk))

\* a worker takes the next chunk of the task queue
WorkerTake(w) ==
    /\ pc = "pool"
    /\ w \in PoolOf(ctx)
    /\ workers[w].pc = "idle"
    /\ nextChunk <= Len(results)
    /\ workers' = [workers EXCEPT ![w] =
                      [IdleWorker EXCEPT !.pc = "run", !.chunk = nextChunk, !.k = 1]]
    /\ nextChunk' = nextChunk + 1
    /\ UNCHANGED <<urlVars, components, ctx, lazy, heap, pc, call, ncalls, refs,
                   yielded, header, tasks, results, completed, fetch, files, nfail,
                   markdown, error>>

\* the worker still has to call the fetch strategy for an image of its block
WorkerFetches(w) ==
    /\ ctx.variant = "fetch"
    /\ Len(workers[w].targets) < Len(images_to_process(CurrentBlock(w)))

\* a worker returns from _block_as_markdown for the current block of its
\* chunk; after the last block of the chunk the chunk's result is set
WorkerRender(w) ==
    /\ pc = "pool"
    /\ w \in PoolOf(ctx)
    /\ workers[w].pc = "run"
    /\ fetch[w].pc = "none"
    /\ ~WorkerFetches(w)
    /\ LET block == CurrentBlock(w)
           targets == IF ctx.variant = "fetch" THEN workers[w].targets
                      ELSE pure_targets(ctx, block)
           frags == Append(workers[w].frags, block_as_markdown(block, targets))
       IN  IF workers[w].k < ChunkLen(w)
           THEN /\ workers' = [workers EXCEPT ![w].k = @ + 1, ![w].frags = frags,
                                              ![w].targets = <<>>]
                /\ UNCHANGED <<results, completed>>
           ELSE /\ workers' = [workers EXCEPT ![w] = IdleWorker]
                /\ results' = [results EXCEPT ![workers[w].chunk] =
                                  <<[ok |-> TRUE, frags |-> frags, err |-> NoException]>>]
                /\ completed' = Append(completed, workers[w].chunk)
    /\ UNCHANGED <<urlVars, components, ctx, lazy, heap, pc, call, ncalls, refs,
                   yielded, header, tasks, nextChunk, fetch, files, nfail,
                   markdown, error>>

(***************************************************************************)
(* markdown/image.py _fetch_image_processor, in process a.                 *)
(***************************************************************************)

\* the src process a passes to the image processor, when it is about to
FetchSrc(a) ==
    IF a = 0 THEN lazy.preview.value[1].src
    ELSE images_to_process(CurrentBlock(a))[Len(workers[a].targets) + 1]

AboutToFetch(a) ==
    /\ fetch[a].pc = "none"
    /\ IF a = 0 THEN pc = "front_matter" /\ FrontMatterFetches
       ELSE /\ pc = "pool"
            /\ a \in PoolOf(ctx)
            /\ workers[a].pc = "run"
            /\ WorkerFetches(a)

\* what requests.get can come back with
Responses(url) == IF url = <<>> THEN {"invalid"} ELSE {"ok", "http_error"}

\* a response for which raise_for_status does not raise
raise_for_status_never(status) == FALSE

\* response.raise_for_status() raises
raise_for_status(status) == status # "ok"

\* the exception e leaves the image processor in process a: in the calling
\* thread it ends the call, in a worker it is the result of the chunk
FetchRaises(a, e) ==
    /\ fetch' = [fetch EXCEPT ![a] = NoFetch]
    /\ IF a = 0
       THEN /\ RaiseToCaller(e)
            /\ UNCHANGED <<workers, results, completed>>
       ELSE /\ workers' = [workers EXCEPT ![a] = IdleWorker]
            /\ results' = [results EXCEPT ![workers[a].chunk] =
                              <<[ok |-> FALSE, frags |-> <<>>, err |-> e]>>]
            /\ completed' = Append(completed, workers[a].chunk)
            /\ UNCHANGED <<pc, error>>

\* url = _original_image_url(src); response = requests.get(url);
\* response.raise_for_status()
FetchGet(a) ==
    /\ AboutToFetch(a)
    /\ LET url == image_original_image_url(FetchSrc(a))
       IN  \E status \in Responses(url) :
              /\ nfail' = nfail + (IF status = "http_error" THEN 1 ELSE 0)
              /\ IF status = "invalid"
                 THEN FetchRaises(a, Exception("MissingSchema", <<"Invalid URL">>))
                 ELSE IF raise_for_status(status)
                 THEN FetchRaises(a, Exception("HTTPError", <<"status">>))
                 ELSE /\ fetch' = [fetch EXCEPT ![a] =
                             [pc |-> "open", url |-> url, status |-> status, off |-> 0]]
                      /\ UNCHANGED <<pc, error, workers, results, completed>>
    /\ UNCHANGED <<urlVars, components, ctx, lazy, heap, call, ncalls, refs,
                   yielded, header, tasks, nextChunk, files, markdown>>

\* write_bytes: open(mode="wb") creates the file or truncates it
FetchOpen(a) ==
    /\ fetch[a].pc = "open"
    /\ files' = [files EXCEPT ![fetch_filename(fetch[a].url)] = File(<<>>)]
    /\ fetch' = [fetch EXCEPT ![a].pc = "write"]
    /\ UNCHANGED <<urlVars, components, ctx, lazy, heap, pc, call, ncalls, refs,
                   yielded, header, tasks, nextChunk, results, completed, workers,
                   nfail, markdown, error>>

\* the data of a file after a write of piece at offset off: a write past the
\* end leaves a hole before it
WriteAt(data, off, piece) ==
    [i \in 1..(IF off + 1 > Len(data) THEN off + 1 ELSE Len(data)) |->
        IF i = off + 1 THEN piece
        ELSE IF i <= Len(data) THEN data[i] ELSE "hole"]

\* write_bytes: one write of the open file; after the last one the file is
\* closed and the processor returns f"{image_src_prefix}{filename}"
FetchWrite(a) ==
    /\ fetch[a].pc = "write"
    /\ LET name == fetch_filename(fetch[a].url)
           off == fetch[a].off
       IN  /\ files' = [files EXCEPT ![name] =
                          File(WriteAt(files[name].data, off, Body(fetch[a].url)[off + 1]))]
           /\ IF off + 1 < NumWrites
              THEN /\ fetch' = [fetch EXCEPT ![a].off = off + 1]
                   /\ UNCHANGED <<pc, header, workers>>
              ELSE /\ fetch' = [fetch EXCEPT ![a] = NoFetch]
                   /\ IF a = 0
                      THEN /\ header' = <<front_matter_as_yaml(lazy.preview.value,
                                              ctx.image_src_prefix \o name)>>
                           /\ pc' = "collect"
                           /\ UNCHANGED workers
                      ELSE /\ workers' = [workers EXCEPT ![a].targets =
                                              Append(@, ctx.image_src_prefix \o name)]
                           /\ UNCHANGED <<pc, header>>
    /\ UNCHANGED <<urlVars, components, ctx, lazy, heap, call, ncalls, refs,
                   yielded, tasks, nextChunk, results, completed, nfail, markdown,
                   error>>

Next ==
    \/ CallMetadata
    \/ CallAsMarkdown
    \/ CallAsBlocks
    \/ PreviewImage
    \/ FirstImageOfBlocks
    \/ UserNext
    \/ FrontMatter
    \/ Collect
    \/ MapReturn
    \/ \E w \in 1..2 : WorkerTake(w)
    \/ \E w \in 1..2 : WorkerRender(w)
    \/ \E a \in Procs : FetchGet(a)
    \/ \E a \in Procs : FetchOpen(a)
    \/ \E a \in Procs : FetchWrite(a)

Spec == Init /\ [][Next]_vars

(***************************************************************************)
(* Properties of use_post and blocks_as_markdown.                          *)
(***************************************************************************)

RECURSIVE Drain(_)
\* list(g): the blocks g yields, and how the iteration ends
Drain(g) ==
    LET r == GenNext(g)
    IN  IF r.kind = "yield"
        THEN [Drain(r.gen) EXCEPT !.blocks = <<r.block>> \o @]
        ELSE [blocks |-> <<>>, kind |-> r.kind, err |-> r.err]

\* the whole post parsed from scratch
ParseAll == Drain(FreshGen)

\* the fragments of blocks rendered one after the other, in list order
SequentialFragments(blocks) ==
    [i \in 1..Len(blocks) |->
        block_as_markdown(blocks[i], pure_targets(ctx, blocks[i]))]

AsMarkdownEnded == pc = "idle" /\ call = "as_markdown"
AsMarkdownReturned == AsMarkdownEnded /\ markdown # <<>>

\* C1: whatever order the workers finish in, as_markdown returns the text of
\* the fragments of the listed blocks in list order, which is what one worker
\* produces.
C1_ParallelEqualsSequential ==
    AsMarkdownReturned =>
        markdown[1] = finish_markdown(header[1], SequentialFragments(tasks))

\* two workers, the second chunk done before the first, both with text
C1_Witness ==
    /\ AsMarkdownReturned
    /\ ctx.num_workers = 2
    /\ Len(completed) >= 2
    /\ completed[1] > completed[2]
    /\ results[completed[1]][1].frags # results[completed[2]][1].frags
    /\ \A j \in 1..Len(results) : Flatten(results[j][1].frags) # <<>>

KnownDiscriminators ==
    {"se-sectionTitle", "se-image", "se-imageGroup", "se-text", "se-placesMap",
     "se-oglink"}

UnknownAt(i) == components[i].cls \notin KnownDiscriminators
HasUnknown == \E i \in 1..Len(components) : UnknownAt(i)
FirstUnknown ==
    CHOOSE i \in 1..Len(components) :
        UnknownAt(i) /\ \A j \in 1..(i - 1) : ~UnknownAt(j)

UnknownComponentError ==
    Exception("ValueError",
              <<"Unknown component type: ", components[FirstUnknown].cls>>)

\* C2: with a component of unknown discriminator in the post, no generator of
\* as_blocks gets past it, the iteration that reaches it ends with the error
\* that carries the discriminator after the blocks of the components before
\* it, and as_markdown returns no Markdown.
C2_UnknownComponentFails ==
    HasUnknown =>
        /\ markdown = <<>>
        /\ \A n \in 1..Len(heap) : heap[n].ci <= FirstUnknown
        /\ Len(tasks) <= Len(ParseAll.blocks)
        /\ (pc = "idle" /\ call = "as_blocks") =>
              /\ error = <<UnknownComponentError>>
              /\ yielded = ParseAll.blocks
              /\ heap[refs.user].done /\ heap[refs.user].ci = FirstUnknown
        /\ (AsMarkdownEnded /\ heap[refs.body].ci = FirstUnknown
                /\ heap[refs.body].done) =>
              error = <<UnknownComponentError>>

\* the unknown component comes after an image: the preview scan never sees it,
\* the body's traversal raises
C2_Witness ==
    /\ HasUnknown
    /\ AsMarkdownEnded
    /\ lazy.preview.value # <<>>
    /\ tasks # <<>>
    /\ error = <<UnknownComponentError>>

RECURSIVE FirstImage(_)
\* the first Image of blocks, or the first image of its first non-empty
\* ImageGroup, or None
FirstImage(blocks) ==
    IF blocks = <<>> THEN <<>>
    ELSE IF Head(blocks).type = "Image"
         THEN <<ImageBlock(Head(blocks).src, Head(blocks).alt)>>
    ELSE IF Head(blocks).type = "ImageGroup" /\ Head(blocks).images # <<>>
         THEN <<Head(blocks).images[1]>>
    ELSE FirstImage(Tail(blocks))

\* C3: preview-image selection returns the first Image, or the first image of
\* the first non-empty ImageGroup, or none; an ImageGroup without images is
\* skipped and never makes the selection fail.
C3_PreviewSelection ==
    /\ error # <<>> => error[1].type # "IndexError"
    /\ lazy.preview.returned > 0 => lazy.preview.value = FirstImage(ParseAll.blocks)

\* C4: a process whose fetch got a non-success response writes nothing to the
\* assets directory for that image, and an as_markdown call during which a
\* fetch got one returns no Markdown.
C4_FetchFailureWritesNothing ==
    [][ /\ nfail' > nfail =>
              /\ files' = files
              /\ \A a \in Procs : fetch'[a] = fetch[a] \/ fetch'[a] = NoFetch
        /\ files' # files =>
              \E a \in Procs : fetch[a].pc \in {"open", "write"} /\ fetch[a].status = "ok"
        /\ (pc' = "idle" /\ call' = "as_markdown" /\ nfail' > 0) => markdown' = <<>>
      ]_vars

\* a worker's fetch of URL_B failed after the front matter's fetch succeeded:
\* the call ended with the worker's error and there is no file for URL_B
C4_Witness ==
    /\ AsMarkdownEnded
    /\ nfail > 0
    /\ error = <<Exception("HTTPError", <<"status">>)>>
    /\ completed # <<>>
    /\ \E i \in 1..Len(tasks) :
          \E n \in 1..Len(images_to_process(tasks[i])) :
              images_to_process(tasks[i])[n] = URL_B
    /\ files[fetch_filename(URL_B)] = Absent

\* C5: every file of the assets directory is, in every state, as it was
\* before the calls or holds the complete bytes fetched for it.
C5_AtomicWrites ==
    \A f \in FileNames :
        \/ files[f] = InitialFiles(ctx)[f]
        \/ \E u \in {URL_A, URL_B} :
              fetch_filename(u) = f /\ files[f] = File(Body(u))

\* C7: the Markdown as_markdown returns has no image reference with an empty
\* target.
C7_NoEmptyImageTarget ==
    markdown # <<>> => ~Contains(markdown[1], <<"]", "(", ")">>)

\* C9: the function a lazy_val wraps returns at most once: after it has, every
\* call of the wrapper gives the stored value.
C9_ComputedOnce ==
    /\ lazy.root.returned <= 1
    /\ lazy.preview.returned <= 1

\* C10: the body as_markdown returns has the fragment of every block of the
\* post in source order, the blocks the preview scan went through included.
C10_BodyHasEveryBlock ==
    AsMarkdownReturned =>
        /\ ParseAll.kind = "stop"
        /\ tasks = ParseAll.blocks
        /\ markdown[1] =
              finish_markdown(header[1], SequentialFragments(ParseAll.blocks))

\* a second as_markdown call returned, after a first one whose preview scan
\* went through two components to find the image
C10_Witness ==
    /\ AsMarkdownReturned
    /\ ncalls = 2
    /\ Len(heap) = 3
    /\ heap[2].ci = 3
    /\ lazy.preview.value # <<>>
    /\ Len(tasks) >= 2

(***************************************************************************)
(* The URL functions applied to bounded inputs.                            *)
(***************************************************************************)

\* number of pieces an input URL is made of
MaxParts == 2

UrlPieces == {
    <<"?","t","y","p","e","=","w","8","0">>,
    POSTFILES,
    BLOGFILES,
    <<"p","o","s","t">>,
    <<"f","i","l","e","s">>,
    VIDEO_HOST,
    IMAGE_HOST,
    <<"h","t","t","p","s",":","/","/","m">>,
    <<"b","l","o","g","v","i","d","e","o","-","p","h","i","n","f",".","p","s","t","a","t","i","c",".","n","e","t","/">>,
    <<"a",".","j","p","g">> }

UrlInputs ==
    { Flatten(ps) : ps \in UNION { [1..n -> UrlPieces] : n \in 0..MaxParts } }

UrlStart ==
    /\ src \in UrlInputs
    /\ parsed = <<>>
    /\ cdn = <<>>
    /\ target = [v \in {"default", "cdn"} |-> <<>>]

\* image_component / image_group_component: src=_original_image_url(str(img["src"]))
ParseNormalize ==
    /\ parsed = <<>>
    /\ parsed' = <<components_original_image_url(src)>>
    /\ UNCHANGED <<src, cdn, target, postVars>>

\* the CDN-rewrite strategy applied to the raw URL, then to its own result
CdnRewrite ==
    /\ Len(cdn) < 2
    /\ cdn' = Append(cdn, image_original_image_url(
                              IF cdn = <<>> THEN src ELSE cdn[Len(cdn)]))
    /\ UNCHANGED <<src, parsed, target, postVars>>

\* _block_as_markdown: processed_image_src(src) of a parsed image, for the
\* two pure strategies
ResolveTarget(v) ==
    /\ parsed # <<>>
    /\ target[v] = <<>>
    /\ target' = [target EXCEPT ![v] =
                     <<IF v = "cdn" THEN image_original_image_url(parsed[1])
                                    ELSE identity(parsed[1])>>]
    /\ UNCHANGED <<src, parsed, cdn, postVars>>

UrlNext ==
    \/ ParseNormalize
    \/ CdnRewrite
    \/ \E v \in {"default", "cdn"} : ResolveTarget(v)

\* no post is in use
PostIdle ==
    /\ components = <<>>
    /\ ctx = [variant |-> "default", num_workers |-> 1,
              assets_directory |-> "none", image_src_prefix |-> <<>>]
    /\ lazy = [root |-> LazyCell, preview |-> LazyCell]
    /\ heap = <<>>
    /\ pc = "idle"
    /\ call = "none"
    /\ ncalls = 0
    /\ refs = NoRefs
    /\ yielded = <<>>
    /\ header = <<>>
    /\ tasks = <<>>
    /\ nextChunk = 0
    /\ results = <<>>
    /\ completed = <<>>
    /\ workers = [w \in 1..2 |-> IdleWorker]
    /\ fetch = [a \in Procs |-> NoFetch]
    /\ files = InitialFiles(ctx)
    /\ nfail = 0
    /\ markdown = <<>>
    /\ error = <<>>

UrlInit == UrlStart /\ PostIdle

SpecUrl == UrlInit /\ [][UrlNext]_vars

\* C6: the CDN-rewrite strategy applied twice gives what it gives applied once.
C6_CdnRewriteIdempotent == Len(cdn) = 2 => cdn[2] = cdn[1]

C6_Witness == Len(cdn) = 2 /\ cdn[1] # src /\ Contains(src, VIDEO_HOST)

\* C8: the parser's normalization of a URL equals the CDN-rewrite strategy
\* applied to it, and parsed images get the same target under the pass-through
\* and the CDN-rewrite strategies.
C8_ParseEqualsCdn ==
    /\ (parsed # <<>> /\ cdn # <<>>) => parsed[1] = cdn[1]
    /\ (target["default"] # <<>> /\ target["cdn"] # <<>>)
          => target["default"] = target["cdn"]

====
